---- MODULE Spec2Model ----
(***************************************************************************)
(* A model of terraform.py, the Ansible dynamic inventory script that      *)
(* reads the Terraform state (terraform state pull), folds the ansible_*   *)
(* resources into hosts and groups, and prints the inventory as JSON.      *)
(*                                                                         *)
(* Python values are modelled as follows: a str is a TLA+ string, a list   *)
(* of a JSON document is List(<<...>>), a dict is Dict(f) with f a         *)
(* function on strings, None is None; a set is a TLA+ set and a sorted()   *)
(* list is a sequence.  A call that may raise returns Return(v) or         *)
(* Raise(e).  Group names are taken to differ from the reserved output key *)
(* "_meta", and every resource carries its name attribute                  *)
(* (inventory_hostname, inventory_group_name) as a string.                 *)
(***************************************************************************)
EXTENDS Integers, Sequences, FiniteSets, TLC

VARIABLES
    pc,           \* where _main stands
    state_keys,   \* the top-level keys of the parsed state (state_json)
    flat_attrs,   \* TerraformState.flat_attrs
    hosts,        \* AnsibleInventory.hosts: hostname -> AnsibleHost
    groups,       \* AnsibleInventory.groups: groupname -> AnsibleGroup
    seen,         \* the resources the generator resources() has yielded, in order
    dispatched,   \* those of them passed to add_resource, in order
    stdout,       \* what was written to sys.stdout
    stderr,       \* what was written to sys.stderr ("" when nothing)
    exit_status,  \* the exit status of the process (Running until it ends)
    rl_resource,  \* read_list_attr alone: the resource it is called on
    rl_result     \* read_list_attr alone: what the call gave

vars == <<pc, state_keys, flat_attrs, hosts, groups, seen, dispatched,
          stdout, stderr, exit_status, rl_resource, rl_result>>

mainVars == <<pc, state_keys, flat_attrs, hosts, groups, seen, dispatched,
              stdout, stderr, exit_status>>

rlVars == <<rl_resource, rl_result>>

(***************************************************************************)
(* Bounds.                                                                 *)
(***************************************************************************)
\* the longest state document: the number of resources resources() yields
MaxResources == 3

\* the largest length marker "<key>.#" of a flattened list
MaxLen == 3

(***************************************************************************)
(* Python values.                                                          *)
(***************************************************************************)
None == [tag |-> "None"]

List(s) == [tag |-> "list", val |-> s]

Dict(d) == [tag |-> "dict", val |-> d]

Str(s) == [tag |-> "str", val |-> s]

\* the truth value of `if v:` for None, a list or a dict
Truthy(v) ==
    CASE v.tag = "None" -> FALSE
      [] v.tag = "list" -> Len(v.val) > 0
      [] v.tag = "dict" -> DOMAIN v.val # {}

Return(v) == [exc |-> "", val |-> v]

Raise(e) == [exc |-> e]

Range(s) == {s[i] : i \in DOMAIN s}

\* the characters of the strings the model uses
Chars(s) ==
    CASE s = "" -> <<>>
      [] s = "all" -> <<"a", "l", "l">>
      [] s = "db" -> <<"d", "b">>
      [] s = "web" -> <<"w", "e", "b">>
      [] s = "db1" -> <<"d", "b", "1">>
      [] s = "web1" -> <<"w", "e", "b", "1">>
      [] s = "0" -> <<"0">>
      [] s = "1" -> <<"1">>
      [] s = "2" -> <<"2">>
      [] s = "3" -> <<"3">>
      [] s = "4" -> <<"4">>
      [] s = "5" -> <<"5">>
      [] s = "-1" -> <<"-", "1">>
      [] s = "-2" -> <<"-", "2">>
      [] s = "+1" -> <<"+", "1">>
      [] s = "abc" -> <<"a", "b", "c">>
      [] s = "1a" -> <<"1", "a">>
      [] s = "-" -> <<"-">>
      [] s = "ansible_" -> <<"a", "n", "s", "i", "b", "l", "e", "_">>
      [] s = "ansible_host" -> <<"a", "n", "s", "i", "b", "l", "e", "_", "h", "o", "s", "t">>
      [] s = "ansible_host_var" -> <<"a", "n", "s", "i", "b", "l", "e", "_", "h", "o", "s", "t", "_", "v", "a", "r">>
      [] s = "ansible_group" -> <<"a", "n", "s", "i", "b", "l", "e", "_", "g", "r", "o", "u", "p">>
      [] s = "ansible_group_var" -> <<"a", "n", "s", "i", "b", "l", "e", "_", "g", "r", "o", "u", "p", "_", "v", "a", "r">>
      [] s = "ansible_hosts" -> <<"a", "n", "s", "i", "b", "l", "e", "_", "h", "o", "s", "t", "s">>
      [] s = "aws_instance" -> <<"a", "w", "s", "_", "i", "n", "s", "t", "a", "n", "c", "e">>
      [] s = "xansible_host" -> <<"x", "a", "n", "s", "i", "b", "l", "e", "_", "h", "o", "s", "t">>

\* ord(c)
Ord(c) ==
    CASE c = "+" -> 43
      [] c = "-" -> 45
      [] c = "0" -> 48
      [] c = "1" -> 49
      [] c = "2" -> 50
      [] c = "3" -> 51
      [] c = "4" -> 52
      [] c = "5" -> 53
      [] c = "_" -> 95
      [] c = "a" -> 97
      [] c = "b" -> 98
      [] c = "c" -> 99
      [] c = "d" -> 100
      [] c = "e" -> 101
      [] c = "g" -> 103
      [] c = "h" -> 104
      [] c = "i" -> 105
      [] c = "l" -> 108
      [] c = "n" -> 110
      [] c = "o" -> 111
      [] c = "p" -> 112
      [] c = "r" -> 114
      [] c = "s" -> 115
      [] c = "t" -> 116
      [] c = "u" -> 117
      [] c = "v" -> 118
      [] c = "w" -> 119
      [] c = "x" -> 120

Digits == {"0", "1", "2", "3", "4", "5"}

DigitVal(c) == Ord(c) - 48

RECURSIVE DecimalVal(_)
DecimalVal(cs) ==
    IF cs = <<>> THEN 0
    ELSE 10 * DecimalVal(SubSeq(cs, 1, Len(cs) - 1)) + DigitVal(cs[Len(cs)])

\* int(s) of a str: an optional sign and one or more decimal digits, else
\* ValueError (the strings of the model hold no blanks and no underscores)
int(s) ==
    LET cs     == Chars(s)
        signed == Len(cs) > 0 /\ cs[1] \in {"-", "+"}
        ds     == IF signed THEN SubSeq(cs, 2, Len(cs)) ELSE cs
    IN  IF Len(ds) = 0 \/ \E i \in 1..Len(ds) : ds[i] \notin Digits
        THEN Raise("ValueError")
        ELSE Return(IF signed /\ cs[1] = "-" THEN 0 - DecimalVal(ds)
                    ELSE DecimalVal(ds))

\* s.startswith(prefix)
startswith(s, prefix) ==
    LET cs == Chars(s)
        ps == Chars(prefix)
    IN  Len(cs) >= Len(ps) /\ SubSeq(cs, 1, Len(ps)) = ps

\* a < b on str: lexicographic on the code points
RECURSIVE SeqLess(_, _)
SeqLess(a, b) ==
    IF b = <<>> THEN FALSE
    ELSE IF a = <<>> THEN TRUE
    ELSE IF Ord(a[1]) # Ord(b[1]) THEN Ord(a[1]) < Ord(b[1])
    ELSE SeqLess(Tail(a), Tail(b))

StrLess(a, b) == SeqLess(Chars(a), Chars(b))

\* sorted(S) of a set of str
RECURSIVE sorted(_)
sorted(S) ==
    IF S = {} THEN <<>>
    ELSE LET m == CHOOSE x \in S : \A y \in S \ {x} : StrLess(x, y)
         IN  <<m>> \o sorted(S \ {m})

(***************************************************************************)
(* TerraformResource.                                                      *)
(***************************************************************************)
\* TerraformResource.__init__
TerraformResource(source_json, flat, resource_type) ==
    [flat_attrs |-> flat, _type |-> resource_type, source_json |-> source_json]

\* TerraformResource.type: the explicit type if there is one, else the
\* record's own "type", whose absence is a KeyError
type(resource) ==
    IF resource._type # "" THEN Return(resource._type)
    ELSE IF "type" \in DOMAIN resource.source_json
         THEN Return(resource.source_json["type"])
         ELSE Raise("KeyError")

\* TerraformResource._raw_attributes
_raw_attributes(resource) ==
    IF resource.flat_attrs
    THEN resource.source_json["primary"]["attributes"]
    ELSE resource.source_json["attributes"]

\* TerraformResource.is_ansible
is_ansible(resource) ==
    LET t == type(resource)
    IN  IF t.exc # "" THEN t ELSE Return(startswith(t.val, "ansible_"))

\* TerraformResource.read_attr
read_attr(resource, key) ==
    LET attrs == _raw_attributes(resource)
    IN  IF key \in DOMAIN attrs THEN attrs[key] ELSE None

\* the subkeys the flattened maps of the model use
SubKeys == {"%", "role", "env"}

\* TerraformResource.read_dict_attr: in the flat shape the keys "<key>.<subkey>"
\* other than "<key>.%"
read_dict_attr(resource, key) ==
    LET attrs == _raw_attributes(resource)
    IN  IF resource.flat_attrs
        THEN LET matched == {m \in SubKeys : (key \o "." \o m) \in DOMAIN attrs
                                              /\ m # "%"}
             IN  Dict([m \in matched |-> attrs[key \o "." \o m]])
        ELSE IF key \in DOMAIN attrs THEN attrs[key] ELSE Dict(<<>>)

\* TerraformResource.read_list_attr that takes an unreadable length for an
\* empty list
read_list_attr_swallow(resource, key) ==
    LET attrs == _raw_attributes(resource)
    IN  IF resource.flat_attrs
        THEN LET length_key == key \o ".#"
             IN  IF length_key \notin DOMAIN attrs THEN Return(List(<<>>))
                 ELSE LET length == int(attrs[length_key])
                      IN  IF length.exc # "" THEN Return(List(<<>>))
                          ELSE IF length.val < 1 THEN Return(List(<<>>))
                          ELSE IF \E i \in 0..(length.val - 1) :
                                      (key \o "." \o ToString(i)) \notin DOMAIN attrs
                               THEN Raise("KeyError")
                               ELSE Return(List([i \in 1..length.val |->
                                        attrs[key \o "." \o ToString(i - 1)]]))
        ELSE Return(IF key \in DOMAIN attrs THEN attrs[key] ELSE None)

\* TerraformResource.read_list_attr that reads the elements from index 1
read_list_attr_from1(resource, key) ==
    LET attrs == _raw_attributes(resource)
    IN  IF resource.flat_attrs
        THEN LET length_key == key \o ".#"
             IN  IF length_key \notin DOMAIN attrs THEN Return(List(<<>>))
                 ELSE LET length == int(attrs[length_key])
                      IN  IF length.exc # "" THEN length
                          ELSE IF length.val < 1 THEN Return(List(<<>>))
                          ELSE IF \E i \in 1..(length.val - 1) :
                                      (key \o "." \o ToString(i)) \notin DOMAIN attrs
                               THEN Raise("KeyError")
                               ELSE Return(List([i \in 1..(length.val - 1) |->
                                        attrs[key \o "." \o ToString(i)]]))
        ELSE Return(IF key \in DOMAIN attrs THEN attrs[key] ELSE None)

\* TerraformResource.read_list_attr: in the flat shape the values of
\* "<key>.0" .. "<key>.<n-1>" for n = int(attrs["<key>.#"]); [] when the
\* length key is missing or n < 1; int raises ValueError and a missing
\* element KeyError
read_list_attr(resource, key) ==
    LET attrs == _raw_attributes(resource)
    IN  IF resource.flat_attrs
        THEN LET length_key == key \o ".#"
             IN  IF length_key \notin DOMAIN attrs THEN Return(List(<<>>))
                 ELSE LET length == int(attrs[length_key])
                      IN  IF length.exc # "" THEN length
                          ELSE IF length.val < 1 THEN Return(List(<<>>))
                          ELSE IF \E i \in 0..(length.val - 1) :
                                      (key \o "." \o ToString(i)) \notin DOMAIN attrs
                               THEN Raise("KeyError")
                               ELSE Return(List([i \in 1..length.val |->
                                        attrs[key \o "." \o ToString(i - 1)]]))
        ELSE Return(IF key \in DOMAIN attrs THEN attrs[key] ELSE None)

(***************************************************************************)
(* AnsibleHost and AnsibleGroup.                                           *)
(***************************************************************************)
\* AnsibleHost.update that keeps the value a variable already has
AnsibleHost_update_keep_first(host, groups_arg, host_vars) ==
    [host EXCEPT
        !.host_vars = IF Truthy(host_vars) THEN @ @@ host_vars.val ELSE @,
        !.groups    = IF Truthy(groups_arg) THEN @ \cup Range(groups_arg.val) ELSE @]

\* AnsibleHost.update
AnsibleHost_update(host, groups_arg, host_vars) ==
    [host EXCEPT
        !.host_vars = IF Truthy(host_vars) THEN host_vars.val @@ @ ELSE @,
        !.groups    = IF Truthy(groups_arg) THEN @ \cup Range(groups_arg.val) ELSE @]

\* AnsibleHost.__init__ that does not enrol the host in "all"
AnsibleHost_no_all(hostname, groups_arg, host_vars) ==
    AnsibleHost_update([hostname |-> hostname, groups |-> {}, host_vars |-> <<>>],
                       groups_arg, host_vars)

\* AnsibleHost.__init__ that leaves out the call of update
AnsibleHost_no_update(hostname, groups_arg, host_vars) ==
    [hostname |-> hostname, groups |-> {"all"}, host_vars |-> <<>>]

\* AnsibleHost.__init__: every host starts as a member of "all"
AnsibleHost(hostname, groups_arg, host_vars) ==
    AnsibleHost_update([hostname |-> hostname, groups |-> {"all"}, host_vars |-> <<>>],
                       groups_arg, host_vars)

\* AnsibleHost.tidy
AnsibleHost_tidy(host) == [host EXCEPT !.groups = sorted(@)]

\* AnsibleHost.get_vars
get_vars(host) == host.host_vars

\* AnsibleGroup.update
AnsibleGroup_update(group, children, hosts_arg, group_vars) ==
    [group EXCEPT
        !.hosts      = IF Truthy(hosts_arg) THEN @ \cup Range(hosts_arg.val) ELSE @,
        !.children   = IF Truthy(children) THEN @ \cup Range(children.val) ELSE @,
        !.group_vars = IF Truthy(group_vars) THEN group_vars.val @@ @ ELSE @]

\* AnsibleGroup.__init__
AnsibleGroup(groupname, children, hosts_arg, group_vars) ==
    AnsibleGroup_update([groupname |-> groupname, hosts |-> {}, children |-> {},
                         group_vars |-> <<>>],
                        children, hosts_arg, group_vars)

\* the reverse of a sequence
Reverse(s) == [i \in 1..Len(s) |-> s[Len(s) + 1 - i]]

\* AnsibleGroup.tidy that lists the members in descending order
AnsibleGroup_tidy_desc(group) ==
    [group EXCEPT !.hosts = Reverse(sorted(@)), !.children = Reverse(sorted(@))]

\* AnsibleGroup.tidy
AnsibleGroup_tidy(group) ==
    [group EXCEPT !.hosts = sorted(@), !.children = sorted(@)]

\* AnsibleGroup.to_dict
AnsibleGroup_to_dict(group) ==
    [children |-> group.children, hosts |-> group.hosts, vars |-> group.group_vars]

(***************************************************************************)
(* AnsibleInventory: inv is [hosts |-> ..., groups |-> ...].               *)
(***************************************************************************)
\* AnsibleInventory.__init__
AnsibleInventory == [hosts |-> <<>>, groups |-> <<>>]

\* AnsibleInventory.update_groups
update_groups(inv, groupname, children, hosts_arg, group_vars) ==
    IF groupname \in DOMAIN inv.groups
    THEN [inv EXCEPT !.groups[groupname] =
              AnsibleGroup_update(@, children, hosts_arg, group_vars)]
    ELSE [inv EXCEPT !.groups =
              (groupname :> AnsibleGroup(groupname, children, hosts_arg, group_vars)) @@ @]

\* the loop of update_hosts: update_groups(groupname, hosts=[hostname]) for
\* each groupname of the set names
RECURSIVE enrol(_, _, _)
enrol(inv, names, hostname) ==
    IF names = {} THEN inv
    ELSE LET groupname == CHOOSE g \in names : TRUE
         IN  enrol(update_groups(inv, groupname, None, List(<<hostname>>), None),
                   names \ {groupname}, hostname)

\* AnsibleInventory.update_hosts that enrols the host only in the groups it
\* was handed
update_hosts_given_only(inv, hostname, groups_arg, host_vars) ==
    LET host == IF hostname \in DOMAIN inv.hosts
                THEN AnsibleHost_update(inv.hosts[hostname], groups_arg, host_vars)
                ELSE AnsibleHost(hostname, groups_arg, host_vars)
        inv1 == [inv EXCEPT !.hosts = (hostname :> host) @@ @]
    IN  IF Truthy(groups_arg)
        THEN enrol(inv1, Range(groups_arg.val) \ DOMAIN inv.groups, hostname)
        ELSE inv1

\* AnsibleInventory.update_hosts
update_hosts(inv, hostname, groups_arg, host_vars) ==
    LET host == IF hostname \in DOMAIN inv.hosts
                THEN AnsibleHost_update(inv.hosts[hostname], groups_arg, host_vars)
                ELSE AnsibleHost(hostname, groups_arg, host_vars)
        inv1 == [inv EXCEPT !.hosts = (hostname :> host) @@ @]
    IN  IF host.groups # {} THEN enrol(inv1, host.groups, hostname) ELSE inv1

\* AnsibleInventory.add_host_resource
add_host_resource(inv, resource) ==
    LET hostname   == read_attr(resource, "inventory_hostname")
        groups_arg == read_list_attr(resource, "groups")
        host_vars  == read_dict_attr(resource, "vars")
    IN  IF groups_arg.exc # "" THEN groups_arg
        ELSE Return(update_hosts(inv, hostname, groups_arg.val, host_vars))

\* AnsibleInventory.add_host_var_resource
add_host_var_resource(inv, resource) ==
    LET hostname  == read_attr(resource, "inventory_hostname")
        key       == read_attr(resource, "key")
        value     == read_attr(resource, "value")
        host_vars == Dict(key :> value)
    IN  Return(update_hosts(inv, hostname, None, host_vars))

\* AnsibleInventory.add_group_resource that hands the children over as hosts
add_group_resource_children_as_hosts(inv, resource) ==
    LET groupname  == read_attr(resource, "inventory_group_name")
        children   == read_list_attr(resource, "children")
        group_vars == read_dict_attr(resource, "vars")
    IN  IF children.exc # "" THEN children
        ELSE Return(update_groups(inv, groupname, None, children.val, group_vars))

\* AnsibleInventory.add_group_resource
add_group_resource(inv, resource) ==
    LET groupname  == read_attr(resource, "inventory_group_name")
        children   == read_list_attr(resource, "children")
        group_vars == read_dict_attr(resource, "vars")
    IN  IF children.exc # "" THEN children
        ELSE Return(update_groups(inv, groupname, children.val, None, group_vars))

\* AnsibleInventory.add_group_var_resource
add_group_var_resource(inv, resource) ==
    LET groupname  == read_attr(resource, "inventory_group_name")
        key        == read_attr(resource, "key")
        value      == read_attr(resource, "value")
        group_vars == Dict(key :> value)
    IN  Return(update_groups(inv, groupname, None, None, group_vars))

\* AnsibleInventory.add_resource that hands every other ansible_ resource to
\* the host handler
add_resource_default_host(inv, resource) ==
    LET t == type(resource).val
    IN  IF t = "ansible_host_var" THEN add_host_var_resource(inv, resource)
        ELSE IF t = "ansible_group" THEN add_group_resource(inv, resource)
        ELSE IF t = "ansible_group_var" THEN add_group_var_resource(inv, resource)
        ELSE add_host_resource(inv, resource)

\* AnsibleInventory.add_resource: the handler of the exact type, none for
\* any other type
add_resource(inv, resource) ==
    LET t == type(resource).val
    IN  IF t = "ansible_host" THEN add_host_resource(inv, resource)
        ELSE IF t = "ansible_host_var" THEN add_host_var_resource(inv, resource)
        ELSE IF t = "ansible_group" THEN add_group_resource(inv, resource)
        ELSE IF t = "ansible_group_var" THEN add_group_var_resource(inv, resource)
        ELSE Return(inv)

\* the inventory as to_dict leaves it: every host and group tidied
tidied(inv) ==
    [hosts  |-> [h \in DOMAIN inv.hosts |-> AnsibleHost_tidy(inv.hosts[h])],
     groups |-> [g \in DOMAIN inv.groups |-> AnsibleGroup_tidy(inv.groups[g])]]

\* AnsibleInventory.to_dict: what it returns; the group sections are stored
\* after "_meta"
to_dict(inv) ==
    LET t == tidied(inv)
    IN  [g \in DOMAIN t.groups |-> AnsibleGroup_to_dict(t.groups[g])]
        @@ ("_meta" :> [hostvars |-> [h \in DOMAIN t.hosts |-> get_vars(t.hosts[h])]])

(***************************************************************************)
(* The resources a state document may hold.                                *)
(***************************************************************************)
\* a resource of the pre-0.12 state: module["resources"][name]
Legacy(t, attrs) ==
    TerraformResource([type |-> t, primary |-> [attributes |-> attrs]], TRUE, "")

\* an instance of the 0.12+ state, typed by the resource that holds it
Current(t, attrs) ==
    TerraformResource([attributes |-> attrs], FALSE, t)

HostAttrsFlat ==
    { ("inventory_hostname" :> "web1") @@ ("groups.#" :> "1") @@ ("groups.0" :> "web")
        @@ ("vars.%" :> "2") @@ ("vars.role" :> "x") @@ ("vars.env" :> "x"),
      ("inventory_hostname" :> "web1") @@ ("groups.#" :> "3") @@ ("groups.0" :> "web")
        @@ ("groups.1" :> "db") @@ ("groups.2" :> "web") @@ ("vars.%" :> "0"),
      ("inventory_hostname" :> "db1") @@ ("groups.#" :> "-1") @@ ("groups.0" :> "db")
        @@ ("vars.%" :> "1") @@ ("vars.role" :> "y") }

HostVarAttrs ==
    { ("inventory_hostname" :> "web1") @@ ("key" :> "role") @@ ("value" :> "y"),
      ("inventory_hostname" :> "db1") @@ ("key" :> "env") @@ ("value" :> "y") }

GroupAttrsFlat ==
    { ("inventory_group_name" :> "web") @@ ("children.#" :> "2") @@ ("children.0" :> "db")
        @@ ("children.1" :> "all") @@ ("vars.%" :> "2") @@ ("vars.env" :> "x")
        @@ ("vars.role" :> "x") }

GroupVarAttrs ==
    { ("inventory_group_name" :> "web") @@ ("key" :> "env") @@ ("value" :> "y"),
      ("inventory_group_name" :> "all") @@ ("key" :> "role") @@ ("value" :> "x") }

\* flat attributes read_list_attr raises on: a length that is no number, and
\* a length of 2 with "groups.1" missing
BadAttrsFlat ==
    { ("inventory_hostname" :> "web1") @@ ("groups.#" :> "abc") @@ ("vars.%" :> "0"),
      ("inventory_hostname" :> "web1") @@ ("groups.#" :> "2") @@ ("groups.0" :> "db")
        @@ ("vars.%" :> "0") }

\* types add_resource has no handler for: the first starts with "ansible_"
OtherTypes == {"ansible_hosts", "aws_instance", "xansible_host"}

\* the attributes of every handled type at once, for a resource of another type
StrayAttrsFlat ==
    ("inventory_hostname" :> "db1") @@ ("inventory_group_name" :> "db")
        @@ ("groups.#" :> "1") @@ ("groups.0" :> "web") @@ ("children.#" :> "abc")
        @@ ("key" :> "role") @@ ("value" :> "y") @@ ("vars.%" :> "1") @@ ("vars.env" :> "y")

\* the last one has no "type"
LegacyResources ==
    {Legacy("ansible_host", a) : a \in HostAttrsFlat \cup BadAttrsFlat}
    \cup {Legacy("ansible_host_var", a) : a \in HostVarAttrs}
    \cup {Legacy("ansible_group", a) : a \in GroupAttrsFlat}
    \cup {Legacy("ansible_group_var", a) : a \in GroupVarAttrs}
    \cup {Legacy(t, StrayAttrsFlat) : t \in OtherTypes}
    \cup {TerraformResource([primary |-> [attributes |-> StrayAttrsFlat]], TRUE, "")}

HostAttrsNested ==
    { ("inventory_hostname" :> "web1") @@ ("groups" :> List(<<"web">>))
        @@ ("vars" :> Dict(("role" :> "x") @@ ("env" :> "x"))),
      ("inventory_hostname" :> "web1") @@ ("groups" :> List(<<"web", "db", "web">>))
        @@ ("vars" :> Dict(<<>>)),
      ("inventory_hostname" :> "db1") @@ ("vars" :> Dict("role" :> "y")) }

GroupAttrsNested ==
    { ("inventory_group_name" :> "web") @@ ("children" :> List(<<"db", "all">>))
        @@ ("vars" :> Dict(("env" :> "x") @@ ("role" :> "x"))) }

StrayAttrsNested ==
    ("inventory_hostname" :> "db1") @@ ("inventory_group_name" :> "db")
        @@ ("groups" :> List(<<"web">>)) @@ ("children" :> List(<<"web">>))
        @@ ("key" :> "role") @@ ("value" :> "y") @@ ("vars" :> Dict("env" :> "y"))

CurrentResources ==
    {Current("ansible_host", a) : a \in HostAttrsNested}
    \cup {Current("ansible_host_var", a) : a \in HostVarAttrs}
    \cup {Current("ansible_group", a) : a \in GroupAttrsNested}
    \cup {Current("ansible_group_var", a) : a \in GroupVarAttrs}
    \cup {Current(t, StrayAttrsNested) : t \in OtherTypes}

(***************************************************************************)
(* _main.                                                                  *)
(***************************************************************************)
inventory == [hosts |-> hosts, groups |-> groups]

Init ==
    /\ pc = "workspace_select"
    /\ state_keys = {}
    /\ flat_attrs = FALSE
    /\ hosts = <<>>
    /\ groups = <<>>
    /\ seen = <<>>
    /\ dispatched = <<>>
    /\ stdout = <<>>
    /\ stderr = ""
    /\ exit_status = -1
    /\ rl_resource = None
    /\ rl_result = None

\* the two ways a run is cut short: sys.exit(1) once the error stream of
\* terraform was written to sys.stderr, and the handler of _main, which
\* prints the traceback to sys.stderr and calls sys.exit(1)
Exit1(message) ==
    /\ pc' = "exit"
    /\ stderr' = message
    /\ exit_status' = 1
    /\ UNCHANGED <<state_keys, flat_attrs, hosts, groups, seen, dispatched, stdout>>

\* what a terraform command may leave on its error stream
ErrStreams == {"", "terraform: error"}

\* how Popen may end: the command ran, or it could not be started
PopenOutcomes == {"ran", "OSError"}

\* _execute_shell: terraform workspace select
WorkspaceSelect ==
    /\ pc = "workspace_select"
    /\ \E popen \in PopenOutcomes, err_ws \in ErrStreams :
          IF popen # "ran"
          THEN Exit1(popen)
          ELSE IF err_ws # ""
          THEN Exit1(err_ws)
          ELSE /\ pc' = "state_pull"
               /\ UNCHANGED <<state_keys, flat_attrs, hosts, groups, seen, dispatched,
                              stdout, stderr, exit_status>>
    /\ UNCHANGED rlVars

\* what terraform state pull may print: text json.loads raises on, or an
\* object with some of the top-level keys
OutCmds ==
    {[json |-> FALSE, keys |-> {}]}
    \cup {[json |-> TRUE, keys |-> K] : K \in {{"modules"}, {"resources"}, {}}}

\* _execute_shell that goes on to parse whatever the error stream holds
StatePull_ignore_err ==
    /\ pc = "state_pull"
    /\ \E popen \in PopenOutcomes, err_cmd \in ErrStreams, out_cmd \in OutCmds :
          IF popen # "ran"
          THEN Exit1(popen)
          ELSE IF ~out_cmd.json
          THEN Exit1("ValueError")
          ELSE /\ pc' = "terraform_state"
               /\ state_keys' = out_cmd.keys
               /\ stderr' = err_cmd
               /\ UNCHANGED <<flat_attrs, hosts, groups, seen, dispatched,
                              stdout, exit_status>>
    /\ UNCHANGED rlVars

\* _execute_shell: terraform state pull, and json.loads of what it printed
StatePull ==
    /\ pc = "state_pull"
    /\ \E popen \in PopenOutcomes, err_cmd \in ErrStreams, out_cmd \in OutCmds :
          IF popen # "ran"
          THEN Exit1(popen)
          ELSE IF err_cmd # ""
          THEN Exit1(err_cmd)
          ELSE IF ~out_cmd.json
          THEN Exit1("ValueError")
          ELSE /\ pc' = "terraform_state"
               /\ state_keys' = out_cmd.keys
               /\ UNCHANGED <<flat_attrs, hosts, groups, seen, dispatched,
                              stdout, stderr, exit_status>>
    /\ UNCHANGED rlVars

\* TerraformState.__init__ and AnsibleInventory()
NewTerraformState ==
    /\ pc = "terraform_state"
    /\ flat_attrs' = ("modules" \in state_keys)
    /\ hosts' = AnsibleInventory.hosts
    /\ groups' = AnsibleInventory.groups
    /\ pc' = "resources"
    /\ UNCHANGED <<state_keys, seen, dispatched, stdout, stderr, exit_status>>
    /\ UNCHANGED rlVars

\* TerraformState.resources finds the container it iterates
HasContainer == IF flat_attrs THEN "modules" \in state_keys
                ELSE "resources" \in state_keys

\* TerraformState.resources: state_json["resources"] is missing
NoContainer ==
    /\ pc = "resources"
    /\ ~HasContainer
    /\ Exit1("KeyError")
    /\ UNCHANGED rlVars

\* the resources of a state document of the shape
Resources(flat) == IF flat THEN LegacyResources ELSE CurrentResources

\* the handler of _main when the loop body raised on resource
LoopRaised(resource, passed, exc) ==
    /\ pc' = "exit"
    /\ stderr' = exc
    /\ exit_status' = 1
    /\ seen' = Append(seen, resource)
    /\ dispatched' = IF passed THEN Append(dispatched, resource) ELSE dispatched
    /\ UNCHANGED <<state_keys, flat_attrs, hosts, groups, stdout>>

\* one turn of the loop of _main: resources() yields resource, and
\* add_resource takes it when it is_ansible
NextResource ==
    /\ pc = "resources"
    /\ HasContainer
    /\ Len(seen) < MaxResources
    /\ \E resource \in Resources(flat_attrs) :
          LET relevant == is_ansible(resource)
              added    == add_resource(inventory, resource)
          IN  IF relevant.exc # ""
              THEN LoopRaised(resource, FALSE, relevant.exc)
              ELSE IF ~relevant.val
              THEN /\ seen' = Append(seen, resource)
                   /\ UNCHANGED <<pc, state_keys, flat_attrs, hosts, groups, dispatched,
                                  stdout, stderr, exit_status>>
              ELSE IF added.exc # ""
              THEN LoopRaised(resource, TRUE, added.exc)
              ELSE /\ seen' = Append(seen, resource)
                   /\ dispatched' = Append(dispatched, resource)
                   /\ hosts' = added.val.hosts
                   /\ groups' = added.val.groups
                   /\ UNCHANGED <<pc, state_keys, flat_attrs, stdout, stderr, exit_status>>
    /\ UNCHANGED rlVars

\* the end of _main: resources() is exhausted, to_dict tidies the hosts and
\* groups, and the document is written to sys.stdout
WriteInventory ==
    /\ pc = "resources"
    /\ HasContainer
    /\ hosts' = tidied(inventory).hosts
    /\ groups' = tidied(inventory).groups
    /\ stdout' = Append(stdout, to_dict(inventory))
    /\ exit_status' = 0
    /\ pc' = "exit"
    /\ UNCHANGED <<state_keys, flat_attrs, seen, dispatched, stderr>>
    /\ UNCHANGED rlVars

Next ==
    \/ WorkspaceSelect
    \/ StatePull
    \/ NewTerraformState
    \/ NoContainer
    \/ NextResource
    \/ WriteInventory

Spec == Init /\ [][Next]_vars

(***************************************************************************)
(* read_list_attr on its own: Init draws a resource, ReadListAttr reads    *)
(* its list attribute "groups".                                            *)
(***************************************************************************)
\* values of the length key "groups.#": the lengths up to MaxLen, negative
\* and signed numbers, and strings that are no number
LengthStrings ==
    {ToString(n) : n \in 0..MaxLen} \cup {"-1", "-2", "+1", "abc", "1a", "-", ""}

\* flat attributes with the length key holding marker (none when marker is
\* None) and "groups.<i>" holding elems[i] for the i of its domain
ListAttrsFlat(marker, elems) ==
    [k \in (IF marker = None THEN {} ELSE {"groups.#"})
           \cup {"groups." \o ToString(i) : i \in DOMAIN elems} |->
        IF k = "groups.#" THEN marker.val
        ELSE elems[CHOOSE i \in DOMAIN elems : k = "groups." \o ToString(i)]]

ReadListInputs ==
    {Legacy("ansible_host", ListAttrsFlat(m, e)) :
        m \in {None} \cup {Str(l) : l \in LengthStrings},
        e \in UNION {[I -> {"db", "web"}] : I \in SUBSET (0..(MaxLen - 1))}}
    \cup {Current("ansible_host", a) :
            a \in {<<>>, "groups" :> List(<<>>), "groups" :> List(<<"web", "db">>)}}

InitReadList ==
    /\ pc = "read_list_attr"
    /\ state_keys = {}
    /\ flat_attrs = FALSE
    /\ hosts = <<>>
    /\ groups = <<>>
    /\ seen = <<>>
    /\ dispatched = <<>>
    /\ stdout = <<>>
    /\ stderr = ""
    /\ exit_status = -1
    /\ rl_resource \in ReadListInputs
    /\ rl_result = None

\* a call of read_list_attr("groups")
ReadListAttr ==
    /\ pc = "read_list_attr"
    /\ rl_result = None
    /\ rl_result' = read_list_attr(rl_resource, "groups")
    /\ pc' = "returned"
    /\ UNCHANGED <<state_keys, flat_attrs, hosts, groups, seen, dispatched,
                   stdout, stderr, exit_status, rl_resource>>

NextReadList == ReadListAttr

SpecReadList == InitReadList /\ [][NextReadList]_vars

(***************************************************************************)
(* Properties of read_list_attr, under SpecReadList.                       *)
(***************************************************************************)
rl_attrs == _raw_attributes(rl_resource)

\* read_list_attr was called on a flat resource whose length key is there
ReadFlatWithMarker ==
    /\ pc = "returned"
    /\ rl_resource.flat_attrs
    /\ "groups.#" \in DOMAIN rl_attrs

\* length values that are no number at all
NonNumeric == {"abc", "1a", "-", ""}

\* length values that are negative numbers
NegativeNumbers == {"-1", "-2"}

\* C6, as claimed: in the flat shape read_list_attr fails whenever the value
\* under the length key is not a non-negative integer string, a negative one
\* such as "-1" included
C6_FailsOnEveryInvalidLength ==
    (ReadFlatWithMarker /\ rl_attrs["groups.#"] \in NonNumeric \cup NegativeNumbers)
        => rl_result.exc # ""

\* C6, amended: in the flat shape read_list_attr fails (the ValueError of
\* int) whenever the value under the length key is no integer, and for a
\* negative integer string such as "-1" it does not fail: it returns the
\* empty list
C6_FailsOnNonNumericOnly ==
    /\ (ReadFlatWithMarker /\ rl_attrs["groups.#"] \in NonNumeric)
          => rl_result = Raise("ValueError")
    /\ (ReadFlatWithMarker /\ rl_attrs["groups.#"] \in NegativeNumbers)
          => rl_result = Return(List(<<>>))

\* read_list_attr returned the empty list for the length "-1", with
\* "groups.0" stored
C6_Witness ==
    /\ ReadFlatWithMarker
    /\ rl_attrs["groups.#"] = "-1"
    /\ "groups.0" \in DOMAIN rl_attrs
    /\ rl_result = Return(List(<<>>))

\* C7: in the flat shape, when the length key holds n and "groups.0" to
\* "groups.<n-1>" are stored, read_list_attr returns exactly these n values
\* in index order; when the length key is missing or holds 0 it returns the
\* empty list
C7_ReadsNElementsInOrder ==
    (pc = "returned" /\ rl_resource.flat_attrs) =>
        /\ "groups.#" \notin DOMAIN rl_attrs => rl_result = Return(List(<<>>))
        /\ \A n \in 0..MaxLen :
              ( /\ "groups.#" \in DOMAIN rl_attrs
                /\ rl_attrs["groups.#"] = ToString(n)
                /\ \A i \in 0..(n - 1) : ("groups." \o ToString(i)) \in DOMAIN rl_attrs )
              => /\ rl_result.exc = ""
                 /\ rl_result.val.tag = "list"
                 /\ Len(rl_result.val.val) = n
                 /\ \A i \in 0..(n - 1) :
                       rl_result.val.val[i + 1] = rl_attrs["groups." \o ToString(i)]

\* read_list_attr returned <<"web", "db">> for the length "2", with a third
\* element stored that it left out
C7_Witness ==
    /\ pc = "returned"
    /\ rl_resource.flat_attrs
    /\ "groups.#" \in DOMAIN rl_attrs
    /\ rl_attrs["groups.#"] = "2"
    /\ "groups.2" \in DOMAIN rl_attrs
    /\ rl_result = Return(List(<<"web", "db">>))

(***************************************************************************)
(* Properties of the inventory, under Spec.                                *)
(***************************************************************************)
\* _main ended with exit status 0
Succeeded == pc = "exit" /\ exit_status = 0

\* the document written to sys.stdout
doc == stdout[1]

\* the members of a membership collection: a set until to_dict has tidied
\* it into a sorted list
Members(c) == IF Succeeded THEN Range(c) ELSE c

\* the type of a resource that has one
TypeIs(resource, t) == type(resource).exc = "" /\ type(resource).val = t

\* C1: for every host h of the inventory and every group name g of h's
\* membership, a group g exists in the inventory and h is in g's host set
C1_MembershipRegistered ==
    \A h \in DOMAIN hosts :
        \A g \in Members(hosts[h].groups) :
            g \in DOMAIN groups /\ h \in Members(groups[g].hosts)

\* web1 was declared with the groups web and db and no ansible_group or
\* ansible_group_var resource was seen: the upsert created the groups
C1_Witness ==
    /\ pc = "resources"
    /\ Len(dispatched) = 1
    /\ TypeIs(dispatched[1], "ansible_host")
    /\ "web1" \in DOMAIN hosts
    /\ hosts["web1"].groups = {"all", "db", "web"}
    /\ DOMAIN groups = {"all", "db", "web"}

\* the hostname a host or host_var resource names
HostnameOf(resource) == read_attr(resource, "inventory_hostname")

\* C2: in the written document every host upserted by an ansible_host or an
\* ansible_host_var resource is in the hosts list of the group "all", and
\* "all" is there whenever a host is
C2_EveryHostInAll ==
    Succeeded =>
        /\ \A i \in 1..Len(dispatched) :
              (TypeIs(dispatched[i], "ansible_host")
                  \/ TypeIs(dispatched[i], "ansible_host_var"))
              => /\ "all" \in DOMAIN doc
                 /\ HostnameOf(dispatched[i]) \in Range(doc["all"].hosts)
        /\ DOMAIN doc["_meta"].hostvars # {} => "all" \in DOMAIN doc

\* db1 was upserted by an ansible_host_var resource alone, and the document
\* lists it under "all"
C2_Witness ==
    /\ Succeeded
    /\ Len(dispatched) = 1
    /\ TypeIs(dispatched[1], "ansible_host_var")
    /\ HostnameOf(dispatched[1]) = "db1"
    /\ doc["all"].hosts = <<"db1">>

\* the variables a resource sets: a function from <<kind, name, key>> to the
\* value, kind being "host" or "group"
VarsSet(resource) ==
    LET t        == type(resource).val
        declared == read_dict_attr(resource, "vars")
        given    == IF Truthy(declared) THEN declared.val ELSE <<>>
        hostname == read_attr(resource, "inventory_hostname")
        group    == read_attr(resource, "inventory_group_name")
        key      == read_attr(resource, "key")
        value    == read_attr(resource, "value")
    IN  IF t = "ansible_host"
        THEN [w \in {<<"host", hostname, k>> : k \in DOMAIN given} |-> given[w[3]]]
        ELSE IF t = "ansible_host_var" THEN <<"host", hostname, key>> :> value
        ELSE IF t = "ansible_group"
        THEN [w \in {<<"group", group, k>> : k \in DOMAIN given} |-> given[w[3]]]
        ELSE IF t = "ansible_group_var" THEN <<"group", group, key>> :> value
        ELSE <<>>

\* the resources of the sequence that set variable w, by position
Writers(resources, w) ==
    {i \in 1..Len(resources) : w \in DOMAIN VarsSet(resources[i])}

Last(S) == CHOOSE i \in S : \A j \in S : j <= i

\* the variables of a host or group in the written document
DocVars(kind, name) ==
    IF kind = "host" THEN doc["_meta"].hostvars[name] ELSE doc[name].vars

VarKeys == {"role", "env"}

\* C3: in the written document every variable of a host or group holds the
\* value of the last resource of the state that set it, whatever set it
\* before, and a variable no resource set is not there
C3_LastWriteWins ==
    Succeeded =>
        /\ \A h \in DOMAIN hosts, k \in VarKeys :
              LET ws == Writers(dispatched, <<"host", h, k>>)
              IN  IF ws = {} THEN k \notin DOMAIN DocVars("host", h)
                  ELSE /\ k \in DOMAIN DocVars("host", h)
                       /\ DocVars("host", h)[k]
                             = VarsSet(dispatched[Last(ws)])[<<"host", h, k>>]
        /\ \A g \in DOMAIN groups, k \in VarKeys :
              LET ws == Writers(dispatched, <<"group", g, k>>)
              IN  IF ws = {} THEN k \notin DOMAIN DocVars("group", g)
                  ELSE /\ k \in DOMAIN DocVars("group", g)
                       /\ DocVars("group", g)[k]
                             = VarsSet(dispatched[Last(ws)])[<<"group", g, k>>]

\* web1 was declared with role = x and env = x, an ansible_host_var then set
\* role = y: the document holds role = y and env = x
C3_Witness ==
    /\ Succeeded
    /\ Len(dispatched) = 2
    /\ TypeIs(dispatched[1], "ansible_host")
    /\ TypeIs(dispatched[2], "ansible_host_var")
    /\ VarsSet(dispatched[1])
          = (<<"host", "web1", "role">> :> "x") @@ (<<"host", "web1", "env">> :> "x")
    /\ VarsSet(dispatched[2]) = (<<"host", "web1", "role">> :> "y")
    /\ doc["_meta"].hostvars["web1"] = ("role" :> "y") @@ ("env" :> "x")

\* this step passed to add_resource, with success, the resource it was
\* passed just before
SameResourceAgain ==
    /\ pc' = "resources"
    /\ Len(dispatched) >= 1
    /\ Len(dispatched') = Len(dispatched) + 1
    /\ dispatched'[Len(dispatched')] = dispatched[Len(dispatched)]

\* C4: applying the same ansible_host resource a second time in a row leaves
\* every host (membership, variables) and every group (hosts, children,
\* variables) as the first application left them
C4_HostResourceIdempotent ==
    [][ (SameResourceAgain /\ TypeIs(dispatched[Len(dispatched)], "ansible_host"))
            => (hosts' = hosts /\ groups' = groups) ]_vars

\* the same ansible_host resource was applied twice in a row to an inventory
\* that held another host
C4_Witness ==
    /\ pc = "resources"
    /\ Len(dispatched) = 3
    /\ dispatched[3] = dispatched[2]
    /\ dispatched[2] # dispatched[1]
    /\ TypeIs(dispatched[3], "ansible_host")
    /\ DOMAIN hosts = {"db1", "web1"}

\* the document holds every host and every group of the inventory
CompleteDocument ==
    /\ Len(stdout) = 1
    /\ DOMAIN doc = DOMAIN groups \cup {"_meta"}
    /\ DOMAIN doc["_meta"].hostvars = DOMAIN hosts
    /\ \A h \in DOMAIN hosts : doc["_meta"].hostvars[h] = hosts[h].host_vars
    /\ \A g \in DOMAIN groups :
          doc[g] = [children |-> groups[g].children, hosts |-> groups[g].hosts,
                    vars |-> groups[g].group_vars]

\* C5: a run ends with exit status 0 and the complete document on standard
\* output, or with a non-zero exit status and nothing on standard output;
\* whatever was reported on the error stream (the error stream of workspace
\* select or state pull, an exception of parsing, iterating or building)
\* ends the run the second way, and nothing is written before the end
C5_ExitStatusContract ==
    /\ pc # "exit" => (exit_status = -1 /\ stdout = <<>>)
    /\ pc = "exit" =>
          \/ exit_status = 0 /\ stderr = "" /\ CompleteDocument
          \/ exit_status # 0 /\ exit_status # -1 /\ stderr # "" /\ stdout = <<>>
    /\ stderr # "" => (pc = "exit" /\ exit_status = 1 /\ stdout = <<>>)

\* two resources had been folded into the inventory when read_list_attr
\* raised on the third: the run ended with status 1 and an empty stdout
C5_Witness ==
    /\ pc = "exit"
    /\ Len(dispatched) = 3
    /\ DOMAIN hosts # {}
    /\ stderr = "ValueError"
    /\ exit_status = 1
    /\ stdout = <<>>

\* this step took the next resource from resources(), and the resource has
\* a type
YieldedTyped ==
    /\ Len(seen') = Len(seen) + 1
    /\ type(seen'[Len(seen')]).exc = ""

\* C8: a resource whose type does not start with "ansible_" is not passed to
\* add_resource, and a resource of any type other than the four handled ones
\* leaves hosts and groups unchanged and raises nothing, whatever its
\* attributes
C8_OtherTypesIgnored ==
    [][ YieldedTyped =>
          LET t == type(seen'[Len(seen')]).val
          IN  /\ t \in {"aws_instance", "xansible_host"} => dispatched' = dispatched
              /\ t \notin {"ansible_host", "ansible_host_var", "ansible_group",
                           "ansible_group_var"}
                    => /\ hosts' = hosts
                       /\ groups' = groups
                       /\ pc' = "resources"
                       /\ exit_status' = -1
                       /\ stderr' = "" ]_vars

\* an aws_instance and an ansible_hosts resource, both with the attributes of
\* a host, went by: only the second was passed to add_resource and the
\* inventory is empty
C8_Witness ==
    /\ pc = "resources"
    /\ Len(seen) = 2
    /\ TypeIs(seen[1], "aws_instance")
    /\ TypeIs(seen[2], "ansible_hosts")
    /\ read_attr(seen[2], "inventory_hostname") = "db1"
    /\ dispatched = <<seen[2]>>
    /\ hosts = <<>>
    /\ groups = <<>>

\* the loop of _main over a sequence of resources
RECURSIVE RunLoop(_, _)
RunLoop(inv, resources) ==
    IF resources = <<>> THEN Return(inv)
    ELSE LET relevant == is_ansible(Head(resources))
             added    == add_resource(inv, Head(resources))
         IN  IF relevant.exc # "" THEN relevant
             ELSE IF ~relevant.val THEN RunLoop(inv, Tail(resources))
             ELSE IF added.exc # "" THEN added
             ELSE RunLoop(added.val, Tail(resources))

\* the orders of n resources
Orders(n) == {p \in [1..n -> 1..n] : \A i, j \in 1..n : i # j => p[i] # p[j]}

\* no two resources of the sequence set the same variable
NoSharedVariable(resources) ==
    \A i, j \in 1..Len(resources) :
        i < j => DOMAIN VarsSet(resources[i]) \cap DOMAIN VarsSet(resources[j]) = {}

StrictlyAscending(s) == \A i \in 1..(Len(s) - 1) : StrLess(s[i], s[i + 1])

\* C9: when no two resources of the state set the same variable, the same
\* resources in any other order give the same document; and every children
\* list and hosts list of the document is in ascending order with no entry
\* twice
C9_Deterministic ==
    Succeeded =>
        /\ NoSharedVariable(seen) =>
              \A p \in Orders(Len(seen)) :
                  LET other == RunLoop(AnsibleInventory,
                                       [i \in 1..Len(seen) |-> seen[p[i]]])
                  IN  other.exc = "" /\ to_dict(other.val) = doc
        /\ \A g \in DOMAIN doc \ {"_meta"} :
              StrictlyAscending(doc[g].children) /\ StrictlyAscending(doc[g].hosts)

\* web1 was upserted before db1, the group web was declared with the children
\* db, all: the document lists db1 before web1 and all before db
C9_Witness ==
    /\ Succeeded
    /\ Len(dispatched) = 3
    /\ NoSharedVariable(seen)
    /\ HostnameOf(dispatched[1]) = "web1"
    /\ HostnameOf(dispatched[2]) = "db1"
    /\ TypeIs(dispatched[3], "ansible_group")
    /\ doc["all"].hosts = <<"db1", "web1">>
    /\ doc["web"].children = <<"all", "db">>
    /\ doc["web"].hosts = <<"web1">>

\* C10: in the written document every hostname of a group's hosts list is a
\* key of _meta.hostvars, and a group's hosts list holds exactly the hosts
\* whose membership includes the group
C10_GroupHostsAreHosts ==
    Succeeded =>
        \A g \in DOMAIN doc \ {"_meta"} :
            /\ Range(doc[g].hosts) \subseteq DOMAIN doc["_meta"].hostvars
            /\ Range(doc[g].hosts) = {h \in DOMAIN hosts : g \in Range(hosts[h].groups)}

\* the group web was declared with children and also got web1 from a host
\* declaration; its child db has no host
C10_Witness ==
    /\ Succeeded
    /\ \E i \in 1..Len(dispatched) : TypeIs(dispatched[i], "ansible_group")
    /\ DOMAIN doc = {"_meta", "all", "web"}
    /\ doc["web"].children = <<"all", "db">>
    /\ doc["web"].hosts = <<"web1">>
    /\ DOMAIN doc["_meta"].hostvars = {"web1"}

====
